---- MODULE Spec2Model ----
(***************************************************************************)
(* A model of the Netflix recommendation dashboard (src/netflix_rec.py,    *)
(* src/supabase_loader.py): the catalog load, the dropdown option indexer, *)
(* the recommendation engine, the aggregate analyzer and the button flow   *)
(* of the recommendation tab.                                              *)
(*                                                                         *)
(* Text is a sequence of one-character strings, so that splitting,         *)
(* trimming, counting commas, case folding, pattern search and             *)
(* lexicographic sorting are computed character by character, as the       *)
(* Python code computes them.                                              *)
(***************************************************************************)
EXTENDS Integers, Sequences, FiniteSets, TLC

VARIABLES
    source,            \* what the Supabase table query will answer
    pc,                \* position of the script: "start", "loaded", "ready"
    netflix_data,      \* the module-level DataFrame, a sequence of rows
    dropdown_options,  \* the module-level option lists
    analysis,          \* the last answer of analyze_netflix_data
    last_call,         \* the last call of get_smart_recommendations
    warning,           \* whether the last button press ended in st.warning
    cache              \* the entries of the three @st.cache_data functions

vars == <<source, pc, netflix_data, dropdown_options, analysis, last_call, warning,
          cache>>

----------------------------------------------------------------------------
(* Characters and text                                                     *)

\* The characters the model orders, in code point order (Python compares
\* str by code point): space, punctuation, digits, upper case, lower case.
CodePoints ==
    <<" ", "&", "'", ",", "-", ".",
      "0", "1", "2", "3", "4", "5", "6", "7", "8", "9",
      "A", "B", "C", "D", "E", "F", "G", "H", "I", "J", "K", "L", "M",
      "N", "O", "P", "Q", "R", "S", "T", "U", "V", "W", "X", "Y", "Z",
      "a", "b", "c", "d", "e", "f", "g", "h", "i", "j", "k", "l", "m",
      "n", "o", "p", "q", "r", "s", "t", "u", "v", "w", "x", "y", "z">>

OrdOf ==
    [c \in {CodePoints[i] : i \in 1..Len(CodePoints)} |->
        CHOOSE i \in 1..Len(CodePoints) : CodePoints[i] = c]

\* ord(c), up to the offset of the table
Ord(c) == OrdOf[c]

IsUpper(c) == Ord(c) >= Ord("A") /\ Ord(c) <= Ord("Z")

IsDigit(c) == Ord(c) >= Ord("0") /\ Ord(c) <= Ord("9")

\* str.lower() of one character
Lower(c) == IF IsUpper(c) THEN CodePoints[Ord(c) - Ord("A") + Ord("a")] ELSE c

\* Python's s < t on str
RECURSIVE StrLess(_, _)
StrLess(s, t) ==
    IF t = <<>> THEN FALSE
    ELSE IF s = <<>> THEN TRUE
    ELSE IF Head(s) # Head(t) THEN Ord(Head(s)) < Ord(Head(t))
    ELSE StrLess(Tail(s), Tail(t))

\* s.count(c)
RECURSIVE StrCount(_, _)
StrCount(s, c) ==
    IF s = <<>> THEN 0
    ELSE (IF Head(s) = c THEN 1 ELSE 0) + StrCount(Tail(s), c)

\* s.split(c): the pieces between the separators, always at least one piece
RECURSIVE StrSplit(_, _)
StrSplit(s, c) ==
    IF \A i \in 1..Len(s) : s[i] # c THEN <<s>>
    ELSE LET k == CHOOSE i \in 1..Len(s) : s[i] = c /\ \A j \in 1..(i - 1) : s[j] # c
         IN  <<SubSeq(s, 1, k - 1)>> \o StrSplit(SubSeq(s, k + 1, Len(s)), c)

\* s.strip(): leading and trailing white space removed
RECURSIVE StrStrip(_)
StrStrip(s) ==
    IF s = <<>> THEN s
    ELSE IF Head(s) = " " THEN StrStrip(Tail(s))
    ELSE IF s[Len(s)] = " " THEN StrStrip(SubSeq(s, 1, Len(s) - 1))
    ELSE s

\* One pattern character against one text character under re.IGNORECASE:
\* "." matches any character, every other character of the model's alphabet
\* is a literal.
RegexCharMatches(p, c) == p = "." \/ Lower(p) = Lower(c)

\* Series.str.contains(pat, case=False, na=False) on one value: pat is
\* searched as a regular expression (regex=True is the default), ignoring
\* case, anywhere in the text.
StrContains(text, pat) ==
    \E i \in 0..(Len(text) - Len(pat)) :
        \A j \in 1..Len(pat) : RegexCharMatches(pat[j], text[i + j])

\* int(text) for a text of decimal digits
RECURSIVE DigitsValue(_)
DigitsValue(s) ==
    IF s = <<>> THEN 0
    ELSE 10 * DigitsValue(SubSeq(s, 1, Len(s) - 1)) + (Ord(s[Len(s)]) - Ord("0"))

----------------------------------------------------------------------------
(* The data source and the load (load_netflix_data)                        *)

\* A value of a text column as the database returns it: text or null.
Null == [isnull |-> TRUE, text |-> <<>>]

Text(s) == [isnull |-> FALSE, text |-> s]

\* The float NaN that errors='coerce' stores for an unparsable value. It is
\* never used as a number: every comparison with it goes through YearGe.
NaN == -1

\* pd.to_numeric(value, errors='coerce') on one value of the column: null,
\* the empty text and text that is not a decimal number become NaN.
ToNumeric(v) ==
    IF v.isnull \/ v.text = <<>> \/ \E i \in 1..Len(v.text) : ~IsDigit(v.text[i])
    THEN NaN
    ELSE DigitsValue(v.text)

\* Series.fillna('') on one value
FillNa(v) == IF v.isnull THEN <<>> ELSE v.text

\* The columns of a DataFrame with at least one row: the keys of its rows
\* (select("*") gives every row the same keys)
Columns(rows) == DOMAIN rows[1]

\* The columns lines 40-43 read and assign; data[column] raises KeyError
\* when the DataFrame has no such column.
CleanedColumns == {"release_year", "listed_in", "director", "country"}

\* The cleaning of lines 40-43 applied to the row at position i of the
\* answer; the DataFrame's RangeIndex label of the row is i - 1. Every other
\* column the answer has is kept as it came.
CleanRow(raw, i) ==
    [c \in DOMAIN raw \cup {"index"} |->
        CASE c = "index" -> i - 1
          [] c = "release_year" -> ToNumeric(raw[c])
          [] c \in {"listed_in", "director", "country"} -> FillNa(raw[c])
          [] OTHER -> raw[c]]

CleanData(rows) == [i \in 1..Len(rows) |-> CleanRow(rows[i], i)]

\* NetflixDataLoader.load_netflix_data: the DataFrame of the rows, an empty
\* DataFrame when the query returns no data, None when the query raises.
LoaderAnswer(src) ==
    IF src.kind = "error" THEN [none |-> TRUE, rows |-> <<>>]
    ELSE IF src.rows = <<>> THEN [none |-> FALSE, rows |-> <<>>]
    ELSE [none |-> FALSE, rows |-> src.rows]

NoOptions == [genres |-> <<>>, directors |-> <<>>, countries |-> <<>>]

NoAnalysis == [done |-> FALSE, total_titles |-> 0, movies |-> 0, tv_shows |-> 0,
               top_genres |-> <<>>, top_countries |-> <<>>]

NoCall == [via |-> "none"]

\* @st.cache_data (lines 21, 55, 139): each decorated function has its own
\* entries, one per value of its arguments; a function without parameters
\* has the one key of the empty argument list. No ttl and no max_entries
\* are given, so an entry stays until its cache is cleared.
NoCache == [load |-> {}, options |-> {}, analysis |-> {}]

NoArgs == <<>>

Cached(entries, key) == \E e \in entries : e.key = key

CachedValue(entries, key) == (CHOOSE e \in entries : e.key = key).value

Store(entries, key, value) == entries \cup {[key |-> key, value |-> value]}

\* netflix_data = load_netflix_data() (line 52): on no data the script
\* stops after st.error; so it does when one of the columns of lines 40-43
\* is missing (the KeyError reaches the except clause of line 47);
\* otherwise the cleaned table becomes netflix_data and the entry of the
\* cache. With an entry in the cache the body does not run. A stop leaves
\* no entry.
Load ==
    /\ pc = "start"
    /\ IF Cached(cache.load, NoArgs)
       THEN /\ pc' = "loaded"
            /\ netflix_data' = CachedValue(cache.load, NoArgs)
            /\ cache' = cache
       ELSE LET data == LoaderAnswer(source)
            IN  IF data.none \/ data.rows = <<>>
                THEN /\ pc' = "stopped"
                     /\ netflix_data' = <<>>
                     /\ cache' = cache
                ELSE IF ~(CleanedColumns \subseteq Columns(data.rows))
                THEN /\ pc' = "stopped"
                     /\ netflix_data' = <<>>
                     /\ cache' = cache
                ELSE /\ pc' = "loaded"
                     /\ netflix_data' = CleanData(data.rows)
                     /\ cache' = [cache EXCEPT
                                    !.load = Store(@, NoArgs, CleanData(data.rows))]
    /\ UNCHANGED <<source, dropdown_options, analysis, last_call, warning>>

----------------------------------------------------------------------------
(* Python containers: lists as sequences, Counter as a sequence of          *)
(* [key, count] entries in first-encountered (insertion) order              *)

Range(list) == {list[i] : i \in 1..Len(list)}

\* sorted(strings) for a collection of distinct strings
RECURSIVE SortedStrings(_)
SortedStrings(S) ==
    IF S = {} THEN <<>>
    ELSE LET m == CHOOSE x \in S : \A y \in S \ {x} : StrLess(x, y)
         IN  <<m>> \o SortedStrings(S \ {m})

\* collections.Counter(list)
RECURSIVE Counter(_)
Counter(list) ==
    IF list = <<>> THEN <<>>
    ELSE LET before == Counter(SubSeq(list, 1, Len(list) - 1))
             x      == list[Len(list)]
         IN  IF \E i \in 1..Len(before) : before[i].key = x
             THEN [i \in 1..Len(before) |->
                      IF before[i].key = x
                      THEN [key |-> x, count |-> before[i].count + 1]
                      ELSE before[i]]
             ELSE Append(before, [key |-> x, count |-> 1])

\* The first n elements of a list: list[:n] for n >= 0
Take(list, n) == SubSeq(list, 1, IF n < Len(list) THEN n ELSE Len(list))

\* Insertion of an entry into a list ordered by count descending, behind
\* every entry of the same count
RECURSIVE InsertByCount(_, _)
InsertByCount(sorted, e) ==
    IF sorted = <<>> THEN <<e>>
    ELSE IF Head(sorted).count >= e.count
         THEN <<Head(sorted)>> \o InsertByCount(Tail(sorted), e)
         ELSE <<e>> \o sorted

RECURSIVE SortByCountDesc(_)
SortByCountDesc(entries) ==
    IF entries = <<>> THEN <<>>
    ELSE InsertByCount(SortByCountDesc(SubSeq(entries, 1, Len(entries) - 1)),
                       entries[Len(entries)])

\* Counter.most_common(n): heapq.nlargest(n, items, key=count), which is
\* sorted(items, key=count, reverse=True)[:n]: equal counts stay in
\* insertion order.
MostCommon(counter, n) == Take(SortByCountDesc(counter), n)

----------------------------------------------------------------------------
(* The option indexer (get_dropdown_options)                               *)

\* [g.strip() for g in value.split(',')]
SplitStrip(value) ==
    LET pieces == StrSplit(value, ",")
    IN  [i \in 1..Len(pieces) |-> StrStrip(pieces[i])]

\* The loop of lines 61-64 (71-74, 84-87): the tokens of every value of
\* the column that is not the empty string, in row order.
RECURSIVE NonEmptyTokens(_)
NonEmptyTokens(column) ==
    IF column = <<>> THEN <<>>
    ELSE LET value == column[Len(column)]
             front == NonEmptyTokens(SubSeq(column, 1, Len(column) - 1))
         IN  IF value # <<>> THEN front \o SplitStrip(value) ELSE front

Column(data, name) == [i \in 1..Len(data) |-> data[i][name]]

\* The count a director must exceed (line 79)
DirectorThreshold == 1

\* The count a country must exceed (line 92)
CountryThreshold == 5

\* [k for k, count in Counter(tokens).items() if count > threshold]
PopularKeys(tokens, threshold) ==
    LET counts == Counter(tokens)
    IN  {counts[i].key : i \in {j \in 1..Len(counts) : counts[j].count > threshold}}

\* options['genres'] = [''] + sorted(list(set(all_genres)))
GenreOptions(data) ==
    <<<<>>>> \o SortedStrings(Range(NonEmptyTokens(Column(data, "listed_in"))))

\* options['directors'] = [''] + sorted(popular_directors)
DirectorOptions(data) ==
    <<<<>>>> \o SortedStrings(PopularKeys(NonEmptyTokens(Column(data, "director")),
                                         DirectorThreshold))

\* options['countries'] = [''] + sorted(popular_countries)
CountryOptions(data) ==
    <<<<>>>> \o SortedStrings(PopularKeys(NonEmptyTokens(Column(data, "country")),
                                         CountryThreshold))

DropdownOptions(data) ==
    [genres    |-> GenreOptions(data),
     directors |-> DirectorOptions(data),
     countries |-> CountryOptions(data)]

\* dropdown_options = get_dropdown_options() (line 97). The function has no
\* parameter and reads the global netflix_data: its cache has one key, and
\* with an entry there the body does not run.
GetDropdownOptions ==
    /\ pc = "loaded"
    /\ IF Cached(cache.options, NoArgs)
       THEN /\ dropdown_options' = CachedValue(cache.options, NoArgs)
            /\ cache' = cache
       ELSE /\ dropdown_options' = DropdownOptions(netflix_data)
            /\ cache' = [cache EXCEPT
                           !.options = Store(@, NoArgs, DropdownOptions(netflix_data))]
    /\ pc' = "ready"
    /\ UNCHANGED <<source, netflix_data, analysis, last_call, warning>>

----------------------------------------------------------------------------
(* The aggregate analyzer (analyze_netflix_data)                           *)

\* The loop of lines 150-152 (161-163): the tokens of every value of the
\* column, the empty string included, in row order.
RECURSIVE AllTokens(_)
AllTokens(column) ==
    IF column = <<>> THEN <<>>
    ELSE AllTokens(SubSeq(column, 1, Len(column) - 1)) \o SplitStrip(column[Len(column)])

\* The length of the top lists (lines 154 and 165)
TopN == 10

CountOfType(data, t) == Cardinality({i \in 1..Len(data) : data[i].type = t})

Analysis(data) ==
    [done          |-> TRUE,
     total_titles  |-> Len(data),
     movies        |-> CountOfType(data, "Movie"),
     tv_shows      |-> CountOfType(data, "TV Show"),
     top_genres    |-> MostCommon(Counter(AllTokens(Column(data, "listed_in"))), TopN),
     top_countries |-> MostCommon(Counter(AllTokens(Column(data, "country"))), TopN)]

\* analysis = analyze_netflix_data(netflix_data) (lines 180 and 379). On a
\* table without a type column data['type'] (line 145) raises KeyError,
\* which nothing catches: the run of the script ends there. The key of the
\* cache is the hash of the argument, the content of the DataFrame.
AnalyzeNetflixData ==
    /\ pc = "ready"
    /\ IF Cached(cache.analysis, <<netflix_data>>)
       THEN /\ analysis' = CachedValue(cache.analysis, <<netflix_data>>)
            /\ pc' = pc
            /\ cache' = cache
       ELSE IF "type" \in Columns(netflix_data)
       THEN /\ analysis' = Analysis(netflix_data)
            /\ pc' = pc
            /\ cache' = [cache EXCEPT
                           !.analysis = Store(@, <<netflix_data>>, Analysis(netflix_data))]
       ELSE /\ pc' = "failed"
            /\ analysis' = analysis
            /\ cache' = cache
    /\ UNCHANGED <<source, netflix_data, dropdown_options, last_call, warning>>

----------------------------------------------------------------------------
(* The recommendation engine (get_smart_recommendations)                   *)

\* An optional text argument: None, or a str
None == [isnull |-> TRUE, text |-> <<>>]

\* Python's truth value of an optional text: None and '' are false
Truthy(arg) == ~arg.isnull /\ arg.text # <<>>

\* release_year >= min_year on one value: False for NaN
YearGe(year, min_year) == year # NaN /\ year >= min_year

\* Lines 104-105 (107-108, 110-111): the str.contains filter on one column,
\* skipped when the argument is None or ''; frame[mask] keeps the rows that
\* satisfy the mask, in frame order
FilterContains(frame, name, arg) ==
    IF Truthy(arg)
    THEN LET Mask(r) == StrContains(r[name], arg.text) IN SelectSeq(frame, Mask)
    ELSE frame

\* Lines 113-114
FilterType(frame, content_type) ==
    IF content_type # "Both"
    THEN LET Mask(r) == r.type = content_type IN SelectSeq(frame, Mask)
    ELSE frame

\* Line 117
FilterYear(frame, min_year) ==
    LET Mask(r) == YearGe(r.release_year, min_year) IN SelectSeq(frame, Mask)

\* Lines 101-117: the five filters in the order of the code
Filtered(data, a) ==
    FilterYear(
        FilterType(
            FilterContains(
                FilterContains(
                    FilterContains(data, "listed_in", a.genre),
                    "director", a.director),
                "country", a.country),
            a.content_type),
        a.min_year)

\* The thresholds and increments of lines 125-127
BonusYear1 == 2018

BonusYear2 == 2015

BonusYear3 == 2010

Bonus1 == 3

Bonus2 == 2

Bonus3 == 1

\* The bonus with the three statements read as exclusive tiers
RecencyBonusExclusive(year) ==
    IF YearGe(year, BonusYear1) THEN Bonus1
    ELSE IF YearGe(year, BonusYear2) THEN Bonus2
    ELSE IF YearGe(year, BonusYear3) THEN Bonus3
    ELSE 0

\* Lines 122-127: popularity_score starts at 0 and each of the three masked
\* += statements adds its increment to the rows at or after its year.
RecencyBonus(year) ==
    (IF YearGe(year, BonusYear1) THEN Bonus1 ELSE 0)
    + (IF YearGe(year, BonusYear2) THEN Bonus2 ELSE 0)
    + (IF YearGe(year, BonusYear3) THEN Bonus3 ELSE 0)

\* Line 130: listed_in.str.count(',') + 1
GenreCount(listed_in) == StrCount(listed_in, ",") + 1

\* Lines 122-131 on one row. popularity_score is kept in halves (twice the
\* float of the code), so that genre_count * 0.5 stays an integer.
ScoreRow(r) ==
    [index            |-> r.index,
     title            |-> r.title,
     type             |-> r.type,
     release_year     |-> r.release_year,
     listed_in        |-> r.listed_in,
     director         |-> r.director,
     country          |-> r.country,
     popularity_score |-> 2 * RecencyBonus(r.release_year) + GenreCount(r.listed_in),
     genre_count      |-> GenreCount(r.listed_in)]

Scored(frame) == [i \in 1..Len(frame) |-> ScoreRow(frame[i])]

\* The order of a sort that is not stable: a later row of equal keys moves
\* ahead of the earlier one
SortsBeforeUnstable(a, b) ==
    \/ a.popularity_score > b.popularity_score
    \/ /\ a.popularity_score = b.popularity_score
       /\ a.release_year >= b.release_year

\* Whether row a is placed before row b by
\* sort_values(['popularity_score', 'release_year'], ascending=[False, False])
\* when a comes later than b in the frame: only on a strictly larger key.
SortsBefore(a, b) ==
    \/ a.popularity_score > b.popularity_score
    \/ /\ a.popularity_score = b.popularity_score
       /\ a.release_year > b.release_year

RECURSIVE InsertRow(_, _)
InsertRow(sorted, r) ==
    IF sorted = <<>> THEN <<r>>
    ELSE IF SortsBefore(r, Head(sorted))
         THEN <<r>> \o sorted
         ELSE <<Head(sorted)>> \o InsertRow(Tail(sorted), r)

\* Line 134, sort_values on two columns: a stable sort (pandas sorts several
\* keys with a lexsort of the key codes), rows of equal keys keep frame order.
RECURSIVE SortValues(_)
SortValues(frame) ==
    IF frame = <<>> THEN <<>>
    ELSE InsertRow(SortValues(SubSeq(frame, 1, Len(frame) - 1)), frame[Len(frame)])

\* head with the cap taken one short
HeadRowsOneShort(frame, n) ==
    IF n >= 1 THEN SubSeq(frame, 1, IF n - 1 < Len(frame) THEN n - 1 ELSE Len(frame))
    ELSE <<>>

\* DataFrame.head(n): the first n rows, or all but the last -n for n < 0
HeadRows(frame, n) ==
    IF n >= 0 THEN Take(frame, n)
    ELSE SubSeq(frame, 1, IF Len(frame) + n > 0 THEN Len(frame) + n ELSE 0)

\* Lines 119-136: the value returned for the filtered frame
Returned(filtered, count) ==
    IF filtered # <<>>
    THEN HeadRows(SortValues(Scored(filtered)), count)
    ELSE filtered

\* The scoring done on the global frame itself: its rows that passed the
\* filter carry the two new columns afterwards
DataAfterCallInPlace(data, scored) ==
    [i \in 1..Len(data) |->
        IF \E k \in 1..Len(scored) : scored[k].index = data[i].index
        THEN scored[CHOOSE k \in 1..Len(scored) : scored[k].index = data[i].index]
        ELSE data[i]]

\* What the call leaves in the module-level netflix_data: the frame it
\* scores is a copy (lines 101 and 121), so the global keeps its rows.
DataAfterCall(data, scored) == data

Args(genre, director, country, content_type, count, min_year) ==
    [genre |-> genre, director |-> director, country |-> country,
     content_type |-> content_type, count |-> count, min_year |-> min_year]

\* The record of one call: its arguments, the frame after line 117 and the
\* value returned.
Call(via, data, a) ==
    [via      |-> via,
     args     |-> a,
     filtered |-> Filtered(data, a),
     result   |-> Returned(Filtered(data, a), a.count)]

\* The state change of one call of get_smart_recommendations
CallEngine(via, a) ==
    /\ last_call' = Call(via, netflix_data, a)
    /\ netflix_data' = DataAfterCall(netflix_data, Scored(Filtered(netflix_data, a)))

\* A direct call of the function with arguments of the caller's choice
GetSmartRecommendations(genre, director, country, content_type, count, min_year) ==
    /\ pc = "ready"
    /\ CallEngine("direct", Args(genre, director, country, content_type, count, min_year))
    /\ UNCHANGED <<source, pc, dropdown_options, analysis, warning, cache>>

----------------------------------------------------------------------------
(* The recommendation tab (recommendation_interface and                    *)
(* get_and_display_recommendations)                                        *)

\* popular_genres (lines 257-258)
popular_genres ==
    <<<<"C", "o", "m", "e", "d", "i", "e", "s">>,
     <<"D", "r", "a", "m", "a", "s">>,
     <<"I", "n", "t", "e", "r", "n", "a", "t", "i", "o", "n", "a", "l", " ", "M", "o", "v", "i", "e", "s">>,
     <<"A", "c", "t", "i", "o", "n", " ", "&", " ", "A", "d", "v", "e", "n", "t", "u", "r", "e">>,
     <<"I", "n", "d", "e", "p", "e", "n", "d", "e", "n", "t", " ", "M", "o", "v", "i", "e", "s">>,
     <<"D", "o", "c", "u", "m", "e", "n", "t", "a", "r", "i", "e", "s">>,
     <<"C", "h", "i", "l", "d", "r", "e", "n", " ", "&", " ", "F", "a", "m", "i", "l", "y", " ", "M", "o", "v", "i", "e", "s">>,
     <<"H", "o", "r", "r", "o", "r", " ", "M", "o", "v", "i", "e", "s">>>>

\* The options of the content type selectbox (line 245)
ContentTypes == {"Both", "Movie", "TV Show"}

\* The value the count slider starts at (line 249)
SliderDefaultCount == 10

KnownYears(data) == {data[i].release_year : i \in {j \in 1..Len(data) : data[j].release_year # NaN}}

\* Series.min() and Series.max() skip NaN
MinYear(data) == CHOOSE y \in KnownYears(data) : \A z \in KnownYears(data) : y <= z

MaxYear(data) == CHOOSE y \in KnownYears(data) : \A z \in KnownYears(data) : y >= z

\* The positions of the count slider the model tries: where it starts
SliderCounts == {SliderDefaultCount}

\* The positions of the year slider the model tries (lines 250-253): its
\* two ends
SliderYears(data) == {MinYear(data), MaxYear(data)}

\* x if x else None (lines 287-289)
OrNone(s) == IF s # <<>> THEN Text(s) ELSE None

\* The validation left out: every press reaches the engine
AnyCriteriaUnchecked(genre_param, director_param, country_param) == TRUE

\* any([genre_param, director_param, country_param]) (line 292)
AnyCriteria(genre_param, director_param, country_param) ==
    Truthy(genre_param) \/ Truthy(director_param) \/ Truthy(country_param)

\* get_and_display_recommendations up to the call of the engine (lines
\* 285-305): the warning and return, or the call. Every press is a new run
\* of the script, so a run that ends at the warning holds no call.
GetAndDisplayRecommendations(via, genre, director, country, content_type, num_recommendations, min_year) ==
    LET genre_param    == OrNone(genre)
        director_param == OrNone(director)
        country_param  == OrNone(country)
    IN  IF ~AnyCriteria(genre_param, director_param, country_param)
        THEN /\ warning' = TRUE
             /\ last_call' = NoCall
             /\ UNCHANGED netflix_data
        ELSE /\ warning' = FALSE
             /\ CallEngine(via, Args(genre_param, director_param, country_param,
                                     content_type, num_recommendations, min_year))

\* The widgets of the tab are drawn: main has filled the sidebar (line 180
\* comes before line 204), and int() of the year column's minimum (line
\* 251) did not raise, which it does when no year is known.
WidgetsDrawn == pc = "ready" /\ analysis.done /\ KnownYears(netflix_data) # {}

\* A press of one of the quick genre buttons (lines 261-266)
ClickQuickGenre ==
    /\ WidgetsDrawn
    /\ \E i \in 1..Len(popular_genres),
          director \in Range(dropdown_options.directors),
          country \in Range(dropdown_options.countries),
          content_type \in ContentTypes,
          num_recommendations \in SliderCounts,
          min_year \in SliderYears(netflix_data) :
            GetAndDisplayRecommendations("quick", popular_genres[i], director, country,
                                         content_type, num_recommendations, min_year)
    /\ UNCHANGED <<source, pc, dropdown_options, analysis, cache>>

\* A press of the "Get Smart Recommendations" button (lines 269-270)
ClickGetRecommendations ==
    /\ WidgetsDrawn
    /\ \E genre \in Range(dropdown_options.genres),
          director \in Range(dropdown_options.directors),
          country \in Range(dropdown_options.countries),
          content_type \in ContentTypes,
          num_recommendations \in SliderCounts,
          min_year \in SliderYears(netflix_data) :
            GetAndDisplayRecommendations("button", genre, director, country,
                                         content_type, num_recommendations, min_year)
    /\ UNCHANGED <<source, pc, dropdown_options, analysis, cache>>

----------------------------------------------------------------------------
(* The tables the data source may hold, and the specifications             *)

RawRow(title, type, release_year, listed_in, director, country) ==
    [title |-> title, type |-> type, release_year |-> release_year,
     listed_in |-> listed_in, director |-> director, country |-> country]

\* The non-empty sequences of at most n elements of S
SeqsUpTo(S, n) == UNION {[1..k -> S] : k \in 1..n}

\* What the query may answer: a table, an empty table, or a failure
Sources(tables) ==
    {[kind |-> "rows", rows |-> rows] : rows \in tables}
    \cup {[kind |-> "rows", rows |-> <<>>], [kind |-> "error", rows |-> <<>>]}

InitWith(tables) ==
    /\ source \in Sources(tables)
    /\ pc = "start"
    /\ netflix_data = <<>>
    /\ dropdown_options = NoOptions
    /\ analysis = NoAnalysis
    /\ last_call = NoCall
    /\ warning = FALSE
    /\ cache = NoCache

\* Rows for the engine: the two records of the example catalog (A, B), a
\* record whose year is not a number, a record without genres, a record
\* from before every bonus year.
EngineRows ==
    {RawRow("A", "Movie", Text(<<"2", "0", "1", "9">>), Text(<<"C", "o", "m", "e", "d", "i", "e", "s", ",", "D", "r", "a", "m", "a", "s">>), Text(<<"X">>), Text(<<"U", "S">>)),
     RawRow("B", "Movie", Text(<<"2", "0", "1", "0">>), Text(<<"D", "r", "a", "m", "a", "s">>), Text(<<"Y">>), Text(<<"U", "S">>)),
     RawRow("C", "TV Show", Text(<<"n", ".", "a">>), Text(<<"D", "r", "a", "m", "a", "s">>), Null, Null),
     RawRow("D", "TV Show", Text(<<"2", "0", "1", "6">>), Null, Text(<<"X">>), Text(<<"U", "S">>)),
     RawRow("E", "Movie", Text(<<"2", "0", "0", "9">>), Text(<<"D", "o", "c", "s">>), Text(<<"Y">>), Null)}

\* The longest table of the engine's specification
MaxRows == 2

\* The largest count argument of a direct call that passes one
MaxCount == 2

\* The defaults of count and min_year (line 100)
DefaultCount == 10

DefaultMinYear == 1900

GenreArgs == {None, Text(<<"D", "r", "a", "m", "a", "s">>), Text(<<".">>)}

DirectorArgs == {None, Text(<<>>), Text(<<"x">>)}

CountryArgs == {None, Text(<<"u", "s">>)}

CountArgs == 0..MaxCount

MinYearArgs == {2000, 2016}

\* The argument combinations of the direct calls: a genre with a count and
\* a minimum year, the other parameters at their defaults; and a director,
\* a country and a content type, count and min_year at their defaults.
EngineArgs ==
    {Args(genre, None, None, "Both", count, min_year) :
        genre \in GenreArgs, count \in CountArgs, min_year \in MinYearArgs}
    \cup
    {Args(None, director, country, content_type, DefaultCount, DefaultMinYear) :
        director \in DirectorArgs, country \in CountryArgs, content_type \in ContentTypes}

InitEngine == InitWith(SeqsUpTo(EngineRows, MaxRows))

DirectCall ==
    \E a \in EngineArgs :
        GetSmartRecommendations(a.genre, a.director, a.country, a.content_type,
                                a.count, a.min_year)

NextEngine == Load \/ GetDropdownOptions \/ AnalyzeNetflixData \/ DirectCall

\* The functions of the module called in any order with any arguments
SpecEngine == InitEngine /\ [][NextEngine]_vars

\* Arguments outside the documented ranges: a count of 0 or below, and a
\* content type that is none of the three of the selectbox
InvalidEngineArgs ==
    {Args(genre, None, None, "Both", count, DefaultMinYear) :
        genre \in {None, Text(<<"D", "r", "a", "m", "a", "s">>)}, count \in {0 - 1, 0}}
    \cup
    {Args(genre, None, None, "Series", DefaultCount, DefaultMinYear) :
        genre \in {None, Text(<<"D", "r", "a", "m", "a", "s">>)}}

InvalidCall ==
    \E a \in InvalidEngineArgs :
        GetSmartRecommendations(a.genre, a.director, a.country, a.content_type,
                                a.count, a.min_year)

NextValidation == NextEngine \/ InvalidCall

\* The functions of the module called with valid and with invalid arguments
SpecValidation == InitEngine /\ [][NextValidation]_vars

\* A table whose rows lack one column
Without(rows, column) ==
    [i \in 1..Len(rows) |-> [c \in DOMAIN rows[i] \ {column} |-> rows[i][c]]]

\* Rows for the load
LoadRows ==
    {RawRow("A", "Movie", Text(<<"2", "0", "1", "9">>), Text(<<"D", "r", "a", "m", "a", "s">>), Text(<<"X">>), Text(<<"U", "S">>)),
     RawRow("B", "TV Show", Text(<<"n", ".", "a">>), Null, Null, Null),
     RawRow("C", "Movie", Text(<<"2", "0", "1", "0">>), Text(<<"D", "o", "c", "s">>), Text(<<"Y">>), Null)}

\* The longest table of the load's specification
MaxLoadRows == 2

\* The columns the tables of the load's specification may lack
DroppedColumns == {"title", "type", "release_year", "listed_in", "director", "country"}

\* Complete tables, and the same tables without one of their columns
LoadTables ==
    SeqsUpTo(LoadRows, MaxLoadRows)
    \cup {Without(rows, column) :
             rows \in SeqsUpTo(LoadRows, MaxLoadRows), column \in DroppedColumns}

InitLoad == InitWith(LoadTables)

NextLoad == Load \/ GetDropdownOptions \/ AnalyzeNetflixData

\* The top of the script on answers of every shape: the load, the option
\* lists and the analysis
SpecLoad == InitLoad /\ [][NextLoad]_vars

\* Streamlit runs the script again from its first line, on every
\* interaction and after a run has ended: the globals of the module are
\* new, the entries of the caches stay.
Rerun ==
    /\ pc # "start"
    /\ pc' = "start"
    /\ netflix_data' = <<>>
    /\ dropdown_options' = NoOptions
    /\ analysis' = NoAnalysis
    /\ last_call' = NoCall
    /\ warning' = FALSE
    /\ UNCHANGED <<source, cache>>

\* Every cache is cleared (st.cache_data.clear(), "Clear cache" in the menu
\* of the application)
ClearCaches ==
    /\ cache # NoCache
    /\ cache' = NoCache
    /\ UNCHANGED <<source, pc, netflix_data, dropdown_options, analysis, last_call, warning>>

\* The cache of load_netflix_data alone is cleared (load_netflix_data.clear(),
\* or a new body of the function, whose source is part of the key)
ClearLoadCache ==
    /\ cache.load # {}
    /\ cache' = [cache EXCEPT !.load = {}]
    /\ UNCHANGED <<source, pc, netflix_data, dropdown_options, analysis, last_call, warning>>

\* The rows of the tables of the caches' specification, in this order
CacheRows ==
    <<RawRow("A", "Movie", Text(<<"2", "0", "1", "9">>), Text(<<"D", "r", "a", "m", "a", "s">>), Text(<<"X">>), Text(<<"U", "S">>)),
      RawRow("B", "TV Show", Text(<<"2", "0", "1", "0">>), Text(<<"D", "o", "c", "s">>), Text(<<"Y">>), Null),
      RawRow("C", "Movie", Text(<<"2", "0", "1", "6">>), Text(<<"C", "o", "m", "e", "d", "i", "e", "s">>), Null, Text(<<"I", "N">>))>>

CacheTable(k) == [i \in 1..k |-> CacheRows[((i - 1) % Len(CacheRows)) + 1]]

\* The longest table of the caches' specification
MaxCacheRows == 2

CacheSources == Sources({CacheTable(k) : k \in 1..MaxCacheRows})

\* The table of the database changes between two queries
SourceChanges ==
    /\ \E s \in CacheSources : s # source /\ source' = s
    /\ UNCHANGED <<pc, netflix_data, dropdown_options, analysis, last_call, warning, cache>>

InitCache == InitWith({CacheTable(k) : k \in 1..MaxCacheRows})

NextCache ==
    \/ Load
    \/ GetDropdownOptions
    \/ AnalyzeNetflixData
    \/ Rerun
    \/ SourceChanges
    \/ ClearCaches
    \/ ClearLoadCache

\* Runs of the script one after the other over a database that changes,
\* with caches that are cleared together or one alone
SpecCache == InitCache /\ [][NextCache]_vars

\* Rows for the indexer and the analyzer: plain values, values with a
\* repeated name and with blanks around the names, and values that end at a
\* comma or are null.
IndexRows ==
    {RawRow("A", "Movie", Text(<<"2", "0", "1", "9">>), Text(<<"D", "r", "a", "m", "a", "s">>), Text(<<"X">>), Text(<<"U", "S">>)),
     RawRow("B", "Movie", Text(<<"2", "0", "1", "0">>), Text(<<"D", "o", "c", "s", ",", " ", "D", "r", "a", "m", "a", "s">>), Text(<<"Y", ",", " ", "Y">>), Text(<<"U", "S", " ", ",", "I", "N">>)),
     RawRow("C", "TV Show", Text(<<"2", "0", "1", "6">>), Text(<<"D", "r", "a", "m", "a", "s", ",">>), Null, Null)}

\* The longest table of the indexer's specification: one row more than the
\* country threshold
MaxIndexRows == 6

InitIndex == InitWith(SeqsUpTo(IndexRows, MaxIndexRows))

NextIndex == Load \/ GetDropdownOptions \/ AnalyzeNetflixData

\* The load, the indexer and the analyzer on tables long enough for both
\* thresholds
SpecIndex == InitIndex /\ [][NextIndex]_vars

\* The rows of the application's table, repeated in this order
AppRows ==
    <<RawRow("A", "Movie", Text(<<"2", "0", "1", "9">>), Text(<<"C", "o", "m", "e", "d", "i", "e", "s", ",", "D", "r", "a", "m", "a", "s">>), Text(<<"X">>), Text(<<"U", "S">>)),
      RawRow("B", "Movie", Text(<<"1", "9", "9", "9">>), Text(<<"D", "r", "a", "m", "a", "s">>), Text(<<"Y">>), Text(<<"U", "S">>)),
      RawRow("D", "TV Show", Text(<<"n", ".", "a">>), Null, Text(<<"X">>), Text(<<"U", "S">>))>>

AppTable(k) == [i \in 1..k |-> AppRows[((i - 1) % Len(AppRows)) + 1]]

\* The longest table of the application's specification: long enough for a
\* country to pass its threshold
MaxAppRows == 6

InitApp == InitWith({AppTable(k) : k \in 1..MaxAppRows})

NextApp ==
    \/ Load
    \/ GetDropdownOptions
    \/ AnalyzeNetflixData
    \/ ClickQuickGenre
    \/ ClickGetRecommendations

\* The application as Streamlit runs it: the engine is reached only through
\* the two kinds of button
Spec == InitApp /\ [][NextApp]_vars

----------------------------------------------------------------------------
(* Properties of the recommendation engine                                 *)

Called == last_call.via # "none"

Min(a, b) == IF a <= b THEN a ELSE b

Indexes(frame) == {frame[i].index : i \in 1..Len(frame)}

\* s occurs in text as a plain substring, ignoring case
SubstringIgnoringCase(text, s) ==
    \E i \in 0..(Len(text) - Len(s)) :
        \A j \in 1..Len(s) : Lower(s[j]) = Lower(text[i + j])

PassesStatedFilter(r, a) ==
    /\ ~Truthy(a.genre) \/ SubstringIgnoringCase(r.listed_in, a.genre.text)
    /\ ~Truthy(a.director) \/ SubstringIgnoringCase(r.director, a.director.text)
    /\ ~Truthy(a.country) \/ SubstringIgnoringCase(r.country, a.country.text)
    /\ a.content_type = "Both" \/ r.type = a.content_type
    /\ r.release_year # NaN /\ r.release_year >= a.min_year

\* C1: after every call, a row of the catalog is in the frame the filters
\* leave (a candidate for the result) if and only if it satisfies the five
\* stated conjuncts, the three text ones as case-insensitive substring tests.
C1_CandidateIffFiveConjuncts ==
    Called =>
        \A i \in 1..Len(netflix_data) :
            (netflix_data[i].index \in Indexes(last_call.filtered))
                <=> PassesStatedFilter(netflix_data[i], last_call.args)

\* C2: for a call with count >= 1 the number of rows returned is the
\* smaller of count and the number of rows that passed the filter; it is
\* never above count and is 0 exactly when no row passed.
C2_LengthIsMinOfCountAndPassing ==
    (Called /\ last_call.args.count >= 1) =>
        /\ Len(last_call.result) = Min(last_call.args.count, Len(last_call.filtered))
        /\ Len(last_call.result) <= last_call.args.count
        /\ (Len(last_call.result) = 0) <=> (Len(last_call.filtered) = 0)

\* A call that was truncated: two rows passed, count is 1, one row returned
C2_Witness ==
    /\ Called
    /\ last_call.args.count = 1
    /\ Len(last_call.filtered) = 2
    /\ Len(last_call.result) = 1

CumulativeBonus(y) ==
    IF y >= 2018 THEN 6 ELSE IF y >= 2015 THEN 3 ELSE IF y >= 2010 THEN 1 ELSE 0

ExclusiveBonus(y) ==
    IF y >= 2018 THEN 3 ELSE IF y >= 2015 THEN 2 ELSE IF y >= 2010 THEN 1 ELSE 0

C4_EmptyListedInCountsZero ==
    Called =>
        \A i \in 1..Len(last_call.result) :
            LET r == last_call.result[i]
            IN  IF r.listed_in = <<>>
                THEN /\ r.genre_count = 0
                     /\ r.popularity_score = 2 * RecencyBonus(r.release_year)
                ELSE r.genre_count = StrCount(r.listed_in, ",") + 1

\* Row a ranks ahead of row b: larger score, then larger year, then the
\* earlier place in the catalog
RanksAhead(a, b) ==
    \/ a.popularity_score > b.popularity_score
    \/ /\ a.popularity_score = b.popularity_score
       /\ a.release_year > b.release_year
    \/ /\ a.popularity_score = b.popularity_score
       /\ a.release_year = b.release_year
       /\ a.index < b.index

Titles(frame) == [i \in 1..Len(frame) |-> frame[i].title]

CatalogColumns ==
    {"index", "title", "type", "release_year", "listed_in", "director", "country"}

\* C6: in every state after the load, the catalog is row for row what the
\* load made of the source's table, no row carries a popularity_score or
\* genre_count column, and the last call repeated now with its arguments
\* returns what it returned.
C6_CatalogUntouched ==
    pc = "ready" =>
        /\ netflix_data = CleanData(source.rows)
        /\ \A i \in 1..Len(netflix_data) : DOMAIN netflix_data[i] = CatalogColumns
        /\ Called =>
               last_call.result =
                   Returned(Filtered(netflix_data, last_call.args), last_call.args.count)

\* The analyzer and the engine have both run, and the engine scored rows
C6_Witness ==
    /\ pc = "ready"
    /\ analysis.done
    /\ Called
    /\ last_call.result # <<>>

----------------------------------------------------------------------------
(* Properties of the option indexer and the analyzer                       *)

\* The names listed behind the first entry of an option list
Listed(options) == Range(Tail(options))

\* The names that occur in a column: the trimmed pieces that are not empty
NamesIn(data, name) == Range(AllTokens(Column(data, name))) \ {<<>>}

\* The number of records whose column holds the name
RecordsWith(data, name, x) ==
    Cardinality({i \in 1..Len(data) : x \in Range(SplitStrip(data[i][name]))})

\* C7: a director is listed if and only if it appears in more than 1
\* record, and a country if and only if it appears in more than 5 records.
C7_ListedIffInEnoughRecords ==
    pc = "ready" =>
        /\ \A d \in NamesIn(netflix_data, "director") :
               (d \in Listed(dropdown_options.directors))
                   <=> RecordsWith(netflix_data, "director", d) > 1
        /\ \A c \in NamesIn(netflix_data, "country") :
               (c \in Listed(dropdown_options.countries))
                   <=> RecordsWith(netflix_data, "country", c) > 5

\* The list starts with the one empty entry, and what follows is not empty,
\* trimmed and strictly ascending
WellFormedOptions(options) ==
    /\ Len(options) >= 1
    /\ options[1] = <<>>
    /\ \A i \in 2..Len(options) :
           /\ options[i] # <<>>
           /\ StrStrip(options[i]) = options[i]
    /\ \A i \in 2..(Len(options) - 1) : StrLess(options[i], options[i + 1])

\* C8: each of the three option lists starts with the empty entry and holds
\* it once, the other entries are distinct, not empty, trimmed and
\* ascending, and the genre list holds every genre of the catalog.
C8_OptionListsWellFormed ==
    pc = "ready" =>
        /\ WellFormedOptions(dropdown_options.genres)
        /\ WellFormedOptions(dropdown_options.directors)
        /\ WellFormedOptions(dropdown_options.countries)
        /\ NamesIn(netflix_data, "listed_in") \subseteq Listed(dropdown_options.genres)

\* C9: the analyzer's top lists are the first TopN entries, by count
\* descending and first-encountered on equal counts, of the tally of the
\* tokens the indexer takes from the same column, and the analyzer counts
\* exactly those tokens.
C9_AnalyzerTalliesIndexerTokens ==
    analysis.done =>
        /\ analysis.top_genres =
               MostCommon(Counter(NonEmptyTokens(Column(netflix_data, "listed_in"))), TopN)
        /\ analysis.top_countries =
               MostCommon(Counter(NonEmptyTokens(Column(netflix_data, "country"))), TopN)
        /\ Range(AllTokens(Column(netflix_data, "listed_in")))
               = Range(NonEmptyTokens(Column(netflix_data, "listed_in")))
        /\ Range(AllTokens(Column(netflix_data, "country")))
               = Range(NonEmptyTokens(Column(netflix_data, "country")))

----------------------------------------------------------------------------
(* Properties of the recommendation tab                                    *)

\* C10: a call of the engine made by a button press never has genre,
\* director and country all absent or empty, and a press that ends at the
\* warning has made no call.
C10_NoCallWithoutCriteria ==
    /\ last_call.via \in {"button", "quick"} =>
           \/ Truthy(last_call.args.genre)
           \/ Truthy(last_call.args.director)
           \/ Truthy(last_call.args.country)
    /\ warning => last_call = NoCall

\* A press with nothing selected has been turned away with the warning
C10_Witness == pc = "ready" /\ warning /\ last_call = NoCall

----------------------------------------------------------------------------
(* Properties of the argument validation                                   *)

InvalidArgs(a) == a.count <= 0 \/ a.content_type \notin ContentTypes

\* C12: a call with a count of 0 or below, or with an unrecognised content
\* type, is rejected before the filters run and returns no record sequence:
\* every call that ran the filters and returned a frame had valid arguments.
C12_InvalidCallsRejected ==
    Called => ~InvalidArgs(last_call.args)

----------------------------------------------------------------------------
(* Properties of the load                                                  *)

RequiredColumns == {"title", "type", "release_year", "listed_in"}

BadSource ==
    \/ source.kind = "error"
    \/ source.rows = <<>>
    \/ ~(RequiredColumns \subseteq Columns(source.rows))

\* C13: when the data source fails, returns no rows, or returns rows without
\* one of the columns title, type, release_year, listed_in, the load fails:
\* no catalog is produced and neither the option lists nor the analysis are
\* computed.
C13_LoadFailsOnBadSource ==
    BadSource =>
        /\ pc \in {"start", "stopped"}
        /\ netflix_data = <<>>
        /\ dropdown_options = NoOptions
        /\ ~analysis.done

----------------------------------------------------------------------------
(* Properties of the caches                                                *)

\* C11: once a new snapshot is the current catalog, the option lists and the
\* statistics the script holds are the ones computed from that snapshot,
\* never ones computed from an earlier snapshot.
C11_DerivedFromCurrentSnapshot ==
    /\ pc = "ready" => dropdown_options = DropdownOptions(netflix_data)
    /\ analysis.done => analysis = Analysis(netflix_data)

====
